---- MODULE Spec2Model ----
(***************************************************************************)
(* sfe::VideoStream (src/src/VideoStream.cpp): the decode loop             *)
(* (onGetData / decodePacket), the clock gate (updateTexture /             *)
(* getSynchronizationGap) and the timer callbacks (willPlay, didPlay,      *)
(* didPause, didStop).                                                     *)
(*                                                                         *)
(* The packet list of the Stream base class, the Timer and the codec are   *)
(* collaborators.  The codec primitive avcodec_decode_video2 is modelled   *)
(* as a nondeterministic choice over every result it can report: a         *)
(* consumed length in -1 .. packet->size and a picture flag, with the      *)
(* picture's best-effort timestamp.                                        *)
(***************************************************************************)
EXTENDS Integers, Sequences, FiniteSets, TLC

\* ------------------------------------------------------------------ bounds
\* Total bytes of the packets of the source, and the largest best-effort
\* timestamp (in stream units) a picture carries.
MaxBytes == 3
MaxPts == 2

\* ------------------------------------------------------- values and inputs
\* AV_NOPTS_VALUE is INT64_MIN in libavutil; any value no start time takes.
AV_NOPTS_VALUE == 0 - 1000000

\* m_stream->start_time and m_stream->time_base of the streams explored.
StartTimes == {AV_NOPTS_VALUE, 1}

TimeBases == {[num |-> 1, den |-> 25]}

\* Timer offsets explored, in milliseconds.
Offsets == {0, 40, 45, 80}

\* The null AVPacketRef.
NULL == [id |-> 0, data |-> 0, size |-> 0, length |-> 0]

\* A surface / frame that holds no decoded picture.
NoPicture == 0 - 1

\* Best-effort timestamps of the pictures the codec can emit (stream units).
PtsValues == 0 .. MaxPts

\* The packets of the source: packet i has identity i, an untouched cursor
\* (data = 0) and size sizes[i] >= 1; length keeps the size it was queued with.
PacketList(sizes) ==
    [i \in 1 .. Len(sizes) |-> [id |-> i, data |-> 0, size |-> sizes[i], length |-> sizes[i]]]

RECURSIVE Sum(_)
Sum(sizes) == IF sizes = <<>> THEN 0 ELSE Head(sizes) + Sum(Tail(sizes))

PacketLists ==
    {PacketList(s) : s \in {t \in UNION {[1 .. n -> 1 .. MaxBytes] : n \in 0 .. MaxBytes} :
                                Sum(t) <= MaxBytes}}

\* No loop iteration has run yet in the current call.
NoStep == [packet |-> NULL, list |-> <<>>, decodedLength |-> 0, gotPicture |-> FALSE, needsMoreDecoding |-> FALSE, ts |-> 0,
           source |-> "none", afterStop |-> FALSE]

VARIABLES
    m_packetList,            \* Stream: the queued encoded packets, head first
    m_codecCtx,              \* TRUE when the codec buffers data submitted since the last flush
    afterStop,               \* TRUE from a Stop until the next decode call
    m_stream,                \* [start_time, time_base], fixed at construction
    status,                  \* Timer status
    offset,                  \* Timer::getOffset(), ms
    m_texture,               \* picture held by the sf::Texture
    owned,                   \* the native resources: "null", "held" or "freed"
    m_lastDecodedTimestamp,  \* ms
    pc,                      \* constructor step, "failed", "idle", "loop" (at the while
                             \* test of onGetData) or "destroyed"
    call,                    \* the operation running, or the last one run
    packet,                  \* onGetData local
    gotFrame,                \* onGetData local
    goOn,                    \* onGetData local
    ret,                     \* "true" / "false" returned by onGetData in this call, else "none"
    disposals,               \* per pop of this call, the disposals it received
    decodes,                 \* decodePacket calls in this call
    texUpdates,              \* texture.update calls in this call
    tsAssigns,               \* assignments to m_lastDecodedTimestamp in this call
    entry,                   \* state at the entry of this call
    step                     \* the last loop iteration of this call

streamVars == <<m_packetList, m_codecCtx, afterStop, m_stream>>
timerVars == <<status, offset>>
videoVars == <<m_texture, m_lastDecodedTimestamp, owned>>
localVars == <<packet, gotFrame, goOn>>
callVars == <<pc, call, ret, disposals, decodes, texUpdates, tsAssigns, entry, step>>
vars == <<streamVars, timerVars, videoVars, localVars, callVars>>

\* ------------------------------------------------------------ pure helpers
\* C++ conversion of a double to sf::Int64: truncation toward zero.
Truncate(a, b) == IF a >= 0 THEN a \div b ELSE 0 - ((0 - a) \div b)

\* sf::Int64 ms = 1000 * (timestamp - startTime) * av_q2d(time_base)
Milliseconds(timestamp, stream) ==
    LET startTime == IF stream.start_time # AV_NOPTS_VALUE THEN stream.start_time ELSE 0
    IN Truncate(1000 * (timestamp - startTime) * stream.time_base.num, stream.time_base.den)

\* Stream::popEncodedData: removes and returns the head, NULL when empty.
popEncodedData(list) ==
    IF list = <<>> THEN [packet |-> NULL, list |-> list]
    ELSE [packet |-> Head(list), list |-> Tail(list)]

\* Stream::prependEncodedData: pushes the packet to the front.
prependEncodedData(list, pkt) == <<pkt>> \o list

\* The Timer notifies its observers on a change of status: willPlay and
\* didPlay around every transition into Playing (from Stopped or Paused),
\* didPause on Playing -> Paused, didStop on every transition into Stopped.
TimerNotifies(callback) ==
    CASE callback = "willPlay" -> status # "Playing"
      [] callback = "didPause" -> status = "Playing"
      [] callback = "didStop" -> status # "Stopped"

\* The offset the Timer reports once stopped: whether stopping rewinds the
\* clock is the Timer's business, so both outcomes are explored.
TimerOffsetsAfterStop == {0, offset}

getSynchronizationGap == m_lastDecodedTimestamp - offset

\* updateTexture: if (getSynchronizationGap() < sf::Time::Zero)
isLate_orOnTime(gap) == gap <= 0

isLate_inverted(gap) == gap > 0

isLate(gap) == gap < 0

\* onGetData: while (!gotFrame && packet && goOn)
loopCond_ignoresGotFrame(got, pkt, on) == pkt # NULL /\ on

loopCond(got, pkt, on) == ~got /\ pkt # NULL /\ on

\* onGetData: if (!gotFrame && goOn) packet = popEncodedData();
readsFurther_afterFailure(got, on) == ~got

readsFurther(got, on) == ~got /\ on

\* onGetData: return goOn;
returnValue_gotFrame(got, on) == got

returnValue(got, on) == on

\* decodePacket: packet->data += decodedLength; packet->size -= decodedLength;
advance_sizeOnly(pkt, decodedLength) == [pkt EXCEPT !.size = @ - 1, !.data = @ + decodedLength]

advance(pkt, decodedLength) == [pkt EXCEPT !.data = @ + decodedLength, !.size = @ - decodedLength]

\* decodePacket, with the codec's answer (decodedLength, gotPicture and the
\* picture's best-effort timestamp) as inputs; last is m_lastDecodedTimestamp.
decodePacket_requeuesOnFailure(pkt, decodedLength, gotPicture, timestamp, last, stream) ==
    LET partial == decodedLength < pkt.size
    IN [ret |-> decodedLength > 0,
        gotFrame |-> gotPicture,
        needsMoreDecoding |-> partial,
        packet |-> IF partial /\ decodedLength > 0 THEN advance(pkt, decodedLength) ELSE pkt,
        stamped |-> decodedLength > 0 /\ gotPicture,
        m_lastDecodedTimestamp |-> IF decodedLength > 0 /\ gotPicture THEN Milliseconds(timestamp, stream) ELSE last]

decodePacket_keepsTimestamp(pkt, decodedLength, gotPicture, timestamp, last, stream) ==
    LET partial == decodedLength > 0 /\ decodedLength < pkt.size
    IN [ret |-> decodedLength > 0,
        gotFrame |-> gotPicture,
        needsMoreDecoding |-> partial,
        packet |-> IF partial THEN advance(pkt, decodedLength) ELSE pkt,
        stamped |-> FALSE,
        m_lastDecodedTimestamp |-> last]

decodePacket_stampsWithoutPicture(pkt, decodedLength, gotPicture, timestamp, last, stream) ==
    LET partial == decodedLength > 0 /\ decodedLength < pkt.size
    IN [ret |-> decodedLength > 0,
        gotFrame |-> gotPicture,
        needsMoreDecoding |-> partial,
        packet |-> IF partial THEN advance(pkt, decodedLength) ELSE pkt,
        stamped |-> decodedLength > 0,
        m_lastDecodedTimestamp |-> IF decodedLength > 0 THEN Milliseconds(timestamp, stream) ELSE last]

decodePacket_neverRequeues(pkt, decodedLength, gotPicture, timestamp, last, stream) ==
    [ret |-> decodedLength > 0,
     gotFrame |-> gotPicture,
     needsMoreDecoding |-> FALSE,
     packet |-> pkt,
     stamped |-> decodedLength > 0 /\ gotPicture,
     m_lastDecodedTimestamp |-> IF decodedLength > 0 /\ gotPicture THEN Milliseconds(timestamp, stream) ELSE last]

decodePacket_zeroIsSuccess(pkt, decodedLength, gotPicture, timestamp, last, stream) ==
    IF decodedLength >= 0
    THEN LET partial == decodedLength < pkt.size
         IN [ret |-> TRUE,
             gotFrame |-> gotPicture,
             needsMoreDecoding |-> partial,
             packet |-> IF partial THEN advance(pkt, decodedLength) ELSE pkt,
             stamped |-> gotPicture,
             m_lastDecodedTimestamp |-> IF gotPicture THEN Milliseconds(timestamp, stream) ELSE last]
    ELSE [ret |-> FALSE,
          gotFrame |-> gotPicture,
          needsMoreDecoding |-> FALSE,
          packet |-> pkt,
          stamped |-> FALSE,
          m_lastDecodedTimestamp |-> last]

decodePacket(pkt, decodedLength, gotPicture, timestamp, last, stream) ==
    IF decodedLength > 0
    THEN LET partial == decodedLength < pkt.size
         IN [ret |-> TRUE,
             gotFrame |-> gotPicture,
             needsMoreDecoding |-> partial,
             packet |-> IF partial THEN advance(pkt, decodedLength) ELSE pkt,
             stamped |-> gotPicture,
             m_lastDecodedTimestamp |-> IF gotPicture THEN Milliseconds(timestamp, stream) ELSE last]
    ELSE [ret |-> FALSE,
          gotFrame |-> gotPicture,
          needsMoreDecoding |-> FALSE,
          packet |-> pkt,
          stamped |-> FALSE,
          m_lastDecodedTimestamp |-> last]

\* The answers avcodec_decode_video2 can give for a packet: a negative error,
\* 0, a partial or the full length; with or without a picture.
DecodedLengths(pkt) == (0 - 1) .. pkt.size

Pictures(gotPicture) == IF gotPicture THEN PtsValues ELSE {NoPicture}

\* Where an emitted picture was decoded from: the data of the packet just
\* submitted, or data the codec had buffered from earlier decode calls.
Sources(gotPicture, buffered) ==
    IF ~gotPicture THEN {"none"}
    ELSE IF buffered THEN {"packet", "buffered"}
    ELSE {"packet"}

\* The native resources of a VideoStream.  m_texture is a member object with
\* a destructor of its own; the other three are raw pointers.
Resources == {"m_rawVideoFrame", "m_rgbaVideoBuffer", "m_texture", "m_swsCtx"}

\* The constructor's steps, in the order of lines 52-65, each acquiring one
\* resource.
CtorSteps == <<"av_frame_alloc", "av_image_alloc", "m_texture.create", "initRescaler">>

CtorResource ==
    [s \in {CtorSteps[i] : i \in 1 .. Len(CtorSteps)} |->
        CASE s = "av_frame_alloc" -> "m_rawVideoFrame"
          [] s = "av_image_alloc" -> "m_rgbaVideoBuffer"
          [] s = "m_texture.create" -> "m_texture"
          [] s = "initRescaler" -> "m_swsCtx"]

CtorNext(s) ==
    LET i == CHOOSE j \in 1 .. Len(CtorSteps) : CtorSteps[j] = s
    IN IF i = Len(CtorSteps) THEN "idle" ELSE CtorSteps[i + 1]

\* CHECK(value, message) with a false value: the error leaves the constructor.
\* The object was never constructed, so ~VideoStream is not run for it; only
\* the member objects are destroyed, and m_texture releases what it holds.
CheckFailed(own) ==
    [own EXCEPT !["m_texture"] = IF @ = "held" THEN "freed" ELSE @]

\* ~VideoStream, lines 68-81, followed by the members' destructors: each
\* resource is released if it is still held.
Destroyed(own) == [r \in Resources |-> IF own[r] = "held" THEN "freed" ELSE own[r]]

\* ------------------------------------------------------------------- state
Snapshot == [list |-> m_packetList, ts |-> m_lastDecodedTimestamp, tex |-> m_texture,
             gap |-> getSynchronizationGap, status |-> status]

Init ==
    /\ m_packetList \in PacketLists
    /\ m_codecCtx = FALSE
    /\ afterStop = FALSE
    /\ m_stream \in [start_time : StartTimes, time_base : TimeBases]
    /\ status = "Stopped"
    /\ offset = 0
    /\ m_texture = NoPicture
    /\ m_lastDecodedTimestamp = 0
    /\ owned = [r \in Resources |-> "null"]
    /\ pc = "av_frame_alloc"
    /\ call = "none"
    /\ packet = NULL
    /\ gotFrame = FALSE
    /\ goOn = TRUE
    /\ ret = "none"
    /\ disposals = <<>>
    /\ decodes = 0
    /\ texUpdates = 0
    /\ tsAssigns = 0
    /\ entry = Snapshot
    /\ step = NoStep

\* VideoStream::VideoStream, lines 52-65: one allocation and its CHECK.
VideoStream ==
    /\ pc \in DOMAIN CtorResource
    /\ \E ok \in BOOLEAN :
          IF ok
          THEN /\ owned' = [owned EXCEPT ![CtorResource[pc]] = "held"]
               /\ pc' = CtorNext(pc)
          ELSE /\ owned' = CheckFailed(owned)
               /\ pc' = "failed"
    /\ UNCHANGED <<streamVars, timerVars, m_texture, m_lastDecodedTimestamp, localVars,
                   call, ret, disposals, decodes, texUpdates, tsAssigns, entry, step>>

\* A call that does not enter onGetData: only the record of the call changes.
Record(name) ==
    /\ call' = name
    /\ entry' = Snapshot
    /\ disposals' = <<>>
    /\ decodes' = 0
    /\ texUpdates' = 0
    /\ tsAssigns' = 0
    /\ step' = NoStep
    /\ ret' = "none"
    /\ UNCHANGED pc

\* onGetData, lines 103-105: the first pop and the locals' initial values.
onGetData_begin(name) ==
    LET popped == popEncodedData(m_packetList)
    IN /\ packet' = popped.packet
       /\ m_packetList' = popped.list
       /\ gotFrame' = FALSE
       /\ goOn' = TRUE
       /\ pc' = "loop"
       /\ call' = name
       /\ entry' = Snapshot
       /\ disposals' = IF popped.packet # NULL THEN <<<<>>>> ELSE <<>>
       /\ decodes' = 0
       /\ texUpdates' = 0
       /\ tsAssigns' = 0
       /\ step' = NoStep
       /\ ret' = "none"
       /\ UNCHANGED <<m_codecCtx, afterStop, m_stream, timerVars, videoVars>>

\* onGetData, lines 107-129: one iteration of the while loop.  The picture the
\* codec writes to m_rawVideoFrame is identified by its best-effort timestamp;
\* rescale copies it to m_rgbaVideoBuffer and texture.update to the texture
\* within the iteration.
onGetData_iterate ==
    /\ pc = "loop"
    /\ loopCond(gotFrame, packet, goOn)
    /\ \E decodedLength \in DecodedLengths(packet), gotPicture \in BOOLEAN :
       \E timestamp \in Pictures(gotPicture), source \in Sources(gotPicture, m_codecCtx) :
          LET d == decodePacket(packet, decodedLength, gotPicture, timestamp,
                                m_lastDecodedTimestamp, m_stream)
              disposal == IF d.needsMoreDecoding THEN "requeued" ELSE "freed"
              disposed == [disposals EXCEPT ![Len(disposals)] = Append(@, disposal)]
              list == IF d.needsMoreDecoding
                      THEN prependEncodedData(m_packetList, d.packet)
                      ELSE m_packetList
              popped == popEncodedData(list)
              further == readsFurther(d.gotFrame, d.ret)
          IN /\ goOn' = d.ret
             /\ gotFrame' = d.gotFrame
             /\ m_lastDecodedTimestamp' = d.m_lastDecodedTimestamp
             /\ m_codecCtx' = TRUE
             /\ afterStop' = FALSE
             /\ m_texture' = IF d.gotFrame THEN timestamp ELSE m_texture
             /\ packet' = IF further THEN popped.packet ELSE d.packet
             /\ m_packetList' = IF further THEN popped.list ELSE list
             /\ disposals' = IF further /\ popped.packet # NULL
                             THEN Append(disposed, <<>>)
                             ELSE disposed
             /\ decodes' = decodes + 1
             /\ texUpdates' = texUpdates + (IF d.gotFrame THEN 1 ELSE 0)
             /\ tsAssigns' = tsAssigns + (IF d.stamped THEN 1 ELSE 0)
             /\ step' = [packet |-> packet, list |-> m_packetList,
                         decodedLength |-> decodedLength, gotPicture |-> gotPicture,
                         needsMoreDecoding |-> d.needsMoreDecoding,
                         ts |-> m_lastDecodedTimestamp,
                         source |-> source, afterStop |-> afterStop]
    /\ UNCHANGED <<pc, call, ret, entry, m_stream, timerVars, owned>>

\* onGetData, line 131: the loop is over and the call returns goOn; the locals
\* go out of scope.  After
\* willPlay has returned the Timer becomes Playing and calls didPlay, which
\* does nothing (lines 192-195).
onGetData_return ==
    /\ pc = "loop"
    /\ ~loopCond(gotFrame, packet, goOn)
    /\ pc' = "idle"
    /\ ret' = IF returnValue(gotFrame, goOn) THEN "true" ELSE "false"
    /\ packet' = NULL
    /\ gotFrame' = FALSE
    /\ goOn' = TRUE
    /\ status' = IF call = "willPlay" THEN "Playing" ELSE status
    /\ UNCHANGED <<streamVars, offset, videoVars,
                   call, disposals, decodes, texUpdates, tsAssigns, entry, step>>

\* updateTexture, lines 93-99.
updateTexture ==
    /\ pc = "idle"
    /\ IF isLate(getSynchronizationGap)
       THEN onGetData_begin("updateTexture")
       ELSE Record("updateTexture") /\ UNCHANGED <<streamVars, timerVars, videoVars, localVars>>

\* preload, lines 182-185.
preload_ifLate ==
    /\ pc = "idle"
    /\ IF isLate(getSynchronizationGap)
       THEN onGetData_begin("preload")
       ELSE Record("preload") /\ UNCHANGED <<streamVars, timerVars, videoVars, localVars>>

preload ==
    /\ pc = "idle"
    /\ onGetData_begin("preload")

\* willPlay, lines 187-190, called by the Timer on every transition into
\* Playing, whatever the previous status.
willPlay_noPreload ==
    /\ pc = "idle"
    /\ TimerNotifies("willPlay")
    /\ status' = "Playing"
    /\ Record("willPlay")
    /\ UNCHANGED <<streamVars, offset, videoVars, localVars>>

willPlay ==
    /\ pc = "idle"
    /\ TimerNotifies("willPlay")
    /\ onGetData_begin("willPlay")

\* didPause, lines 197-200, called by the Timer when it pauses.
didPause ==
    /\ pc = "idle"
    /\ TimerNotifies("didPause")
    /\ status' = "Paused"
    /\ Record("didPause")
    /\ UNCHANGED <<streamVars, offset, videoVars, localVars>>

\* didStop, lines 202-205, called by the Timer when it stops:
\* avcodec_flush_buffers(m_codecCtx).
didStop_noFlush ==
    /\ pc = "idle"
    /\ TimerNotifies("didStop")
    /\ status' = "Stopped"
    /\ offset' \in TimerOffsetsAfterStop
    /\ afterStop' = TRUE
    /\ Record("didStop")
    /\ UNCHANGED <<m_packetList, m_codecCtx, m_stream, videoVars, localVars>>

didStop_resetsTimestamp ==
    /\ pc = "idle"
    /\ TimerNotifies("didStop")
    /\ status' = "Stopped"
    /\ offset' \in TimerOffsetsAfterStop
    /\ m_codecCtx' = FALSE
    /\ afterStop' = TRUE
    /\ m_lastDecodedTimestamp' = 0
    /\ Record("didStop")
    /\ UNCHANGED <<m_packetList, m_stream, m_texture, owned, localVars>>

didStop ==
    /\ pc = "idle"
    /\ TimerNotifies("didStop")
    /\ status' = "Stopped"
    /\ offset' \in TimerOffsetsAfterStop
    /\ m_codecCtx' = FALSE
    /\ afterStop' = TRUE
    /\ Record("didStop")
    /\ UNCHANGED <<m_packetList, m_stream, videoVars, localVars>>

\* VideoStream::~VideoStream, lines 68-81, on a constructed object at rest.
destructor ==
    /\ pc = "idle"
    /\ pc' = "destroyed"
    /\ owned' = Destroyed(owned)
    /\ call' = "~VideoStream"
    /\ entry' = Snapshot
    /\ disposals' = <<>>
    /\ decodes' = 0
    /\ texUpdates' = 0
    /\ tsAssigns' = 0
    /\ step' = NoStep
    /\ ret' = "none"
    /\ UNCHANGED <<streamVars, timerVars, m_texture, m_lastDecodedTimestamp, localVars>>

\* The Timer's clock runs while it is Playing; the record of the last call
\* is dropped.
TimerAdvance ==
    /\ pc = "idle"
    /\ status = "Playing"
    /\ \E o \in Offsets : o > offset /\ offset' = o
    /\ Record("none")
    /\ UNCHANGED <<streamVars, status, videoVars, localVars>>

Next ==
    \/ VideoStream
    \/ destructor
    \/ updateTexture
    \/ preload
    \/ willPlay
    \/ didPause
    \/ didStop
    \/ TimerAdvance
    \/ onGetData_iterate
    \/ onGetData_return

Spec == Init /\ [][Next]_vars

\* Catch-up: the stream is constructed and played, the source is not refilled,
\* the clock moves a finite number of times and is then held, and the movie
\* keeps calling updateTexture.  A started constructor or onGetData call runs
\* to its end, being sequential code.
NextCatchUp ==
    \/ VideoStream
    \/ willPlay
    \/ TimerAdvance
    \/ updateTexture
    \/ onGetData_iterate
    \/ onGetData_return

SpecCatchUp ==
    /\ Init
    /\ [][NextCatchUp]_vars
    /\ WF_vars(VideoStream)
    /\ WF_vars(updateTexture)
    /\ WF_vars(onGetData_iterate)
    /\ WF_vars(onGetData_return)

\* ------------------------------------------------------------------ claims
\* A call that ran onGetData has returned.
Returned == pc = "idle" /\ ret # "none"

\* The last loop iteration of the call decoded a packet.
Stepped == step.packet # NULL

\* The packet of the last iteration, with the cursor advanced by what the
\* codec consumed.
Reduced ==
    [id |-> step.packet.id,
     data |-> step.packet.data + step.decodedLength,
     size |-> step.packet.size - step.decodedLength,
     length |-> step.packet.length]

Count(kind) == Cardinality({i \in 1 .. Len(disposals) : disposals[i] = <<kind>>})

\* C1: every packet popped inside onGetData receives exactly one disposal by
\* the time the call returns: it is freed once or prepended once, never both
\* and never neither; while the loop runs only the packet in hand may still
\* be undisposed, and the packet list shrinks by exactly the packets freed.
C1_OneDisposalPerPop ==
    /\ \A i \in 1 .. Len(disposals) :
          /\ Len(disposals[i]) <= 1
          /\ i < Len(disposals) => Len(disposals[i]) = 1
    /\ pc = "idle" =>
          /\ \A i \in 1 .. Len(disposals) : disposals[i] \in {<<"freed">>, <<"requeued">>}
          /\ Len(disposals) = Count("freed") + Count("requeued")
          /\ Len(m_packetList) = Len(entry.list) - Count("freed")

\* A call that popped at least three times, requeued one pop, freed another
\* and ended on a failed decode.
C1_Witness ==
    /\ Returned
    /\ Len(disposals) >= 3
    /\ Count("requeued") >= 1
    /\ Count("freed") >= 1
    /\ step.decodedLength < 0

\* C2: a tick whose gap lastDecodedTimestamp - offset is >= 0 (0 included)
\* pops nothing, decodes nothing and leaves the texture, lastDecodedTimestamp
\* and the packet list as they were.
C2_TickGatedOff ==
    (call = "updateTexture" /\ entry.gap >= 0) =>
        /\ pc = "idle"
        /\ ret = "none"
        /\ disposals = <<>>
        /\ decodes = 0
        /\ texUpdates = 0
        /\ m_texture = entry.tex
        /\ m_lastDecodedTimestamp = entry.ts
        /\ m_packetList = entry.list

\* A tick at a gap of exactly 0 (40 ms decoded, clock at 40 ms) with packets
\* waiting.
C2_Witness ==
    /\ call = "updateTexture"
    /\ entry.gap = 0
    /\ entry.ts = 40
    /\ entry.list # <<>>

\* C3: a successful decode that consumed less than the packet's remaining
\* length puts the packet back at the front with data advanced and size
\* reduced by the consumed bytes, ahead of everything queued; the next pop,
\* in this call (no picture yet) or at the start of a later call, returns it.
C3_PartialRequeuedAtFront ==
    /\ (Stepped /\ step.decodedLength > 0 /\ step.decodedLength < step.packet.size) =>
          /\ step.needsMoreDecoding
          /\ IF step.gotPicture
             THEN m_packetList = <<Reduced>> \o step.list
             ELSE pc = "loop" /\ packet = Reduced /\ m_packetList = step.list
    /\ (pc = "loop" /\ decodes = 0 /\ entry.list # <<>>) =>
          /\ packet = Head(entry.list)
          /\ m_packetList = Tail(entry.list)

\* A later call pops a packet whose cursor an earlier call advanced, while
\* other packets are queued behind it.
C3_Witness ==
    /\ pc = "loop"
    /\ decodes = 0
    /\ packet.data > 0
    /\ packet.size > 0
    /\ m_packetList # <<>>

\* C4: when the codec reports a failed decode, no frame is produced in that
\* call: the texture is not updated and lastDecodedTimestamp is not changed,
\* whatever picture flag came with the failure.
C4_NoFrameOnFailure ==
    (Stepped /\ step.decodedLength < 0) =>
        /\ texUpdates = 0
        /\ m_texture = entry.tex
        /\ m_lastDecodedTimestamp = entry.ts

\* C5: when the codec reports a failed decode the failing packet is freed
\* once and not prepended (a partly consumed one included), nothing further
\* is popped, the loop ends and onGetData returns false.
C5_FailureAborts ==
    (Stepped /\ step.decodedLength < 0) =>
        /\ ~step.needsMoreDecoding
        /\ disposals[Len(disposals)] = <<"freed">>
        /\ m_packetList = step.list
        /\ pc = "loop" => (~goOn /\ packet = step.packet /\ ~loopCond(gotFrame, packet, goOn))
        /\ pc = "idle" => ret = "false"

\* A call returned after a failed decode of a packet that an earlier decode
\* had partly consumed, with packets still queued.
C5_Witness ==
    /\ Returned
    /\ step.decodedLength < 0
    /\ step.packet.data > 0
    /\ m_packetList # <<>>

\* C6: preload never consults the gap: with a non-empty packet list it pops
\* the head and decodes it, whatever lastDecodedTimestamp and the offset are.
C6_PreloadIgnoresGap ==
    (call = "preload" /\ entry.list # <<>>) =>
        /\ Len(disposals) >= 1
        /\ (pc = "loop" /\ decodes = 0) =>
              (packet = Head(entry.list) /\ loopCond(gotFrame, packet, goOn))
        /\ pc = "idle" => (ret # "none" /\ decodes >= 1)

\* A preload that decoded although the last decoded frame was ahead of the
\* clock.
C6_Witness ==
    /\ call = "preload"
    /\ Returned
    /\ entry.gap > 0
    /\ decodes >= 1

\* C7 as claimed: any queued packet may bear a picture, so a preload on a
\* non-empty packet list returns either with a picture in the texture and
\* lastDecodedTimestamp set from it, or with the list exhausted.
C7_PreloadReachesPicture ==
    (call = "preload" /\ Returned /\ entry.list # <<>>) =>
        \/ texUpdates = 1 /\ tsAssigns = 1
        \/ m_packetList = <<>>

\* C7 as amended: when no decode of the call fails (onGetData returns true),
\* preload skips the packets that decode to no picture and ends with the first
\* picture in the texture and lastDecodedTimestamp set to that picture's
\* timestamp, or with the list exhausted and neither changed; when a decode
\* fails the call ends there and lastDecodedTimestamp is unchanged.
C7_PreloadReachesPictureUnlessFailure ==
    (call = "preload" /\ Returned /\ entry.list # <<>>) =>
        IF ret = "true"
        THEN \/ /\ texUpdates = 1
                /\ tsAssigns = 1
                /\ step.gotPicture
                /\ m_lastDecodedTimestamp = Milliseconds(m_texture, m_stream)
             \/ /\ texUpdates = 0
                /\ tsAssigns = 0
                /\ m_packetList = <<>>
                /\ m_texture = entry.tex
                /\ m_lastDecodedTimestamp = entry.ts
        ELSE /\ Stepped
             /\ step.decodedLength <= 0
             /\ tsAssigns = 0
             /\ m_lastDecodedTimestamp = entry.ts

\* A preload that freed a first packet without a picture, popped further and
\* ended with a picture whose timestamp differs from the one before the call.
C7_Witness ==
    /\ call = "preload"
    /\ Returned
    /\ ret = "true"
    /\ Len(disposals) >= 2
    /\ disposals[1] = <<"freed">>
    /\ texUpdates = 1
    /\ m_lastDecodedTimestamp # entry.ts

\* C8: on an empty packet list a frame-production attempt (preload, willPlay,
\* or a tick with a negative gap) decodes nothing, frees and requeues nothing,
\* leaves the texture and lastDecodedTimestamp alone and returns true.
C8_EmptySourceStops ==
    (/\ call \in {"updateTexture", "preload", "willPlay"}
     /\ entry.list = <<>>
     /\ call = "updateTexture" => entry.gap < 0) =>
        /\ decodes = 0
        /\ disposals = <<>>
        /\ texUpdates = 0
        /\ m_packetList = <<>>
        /\ m_texture = entry.tex
        /\ m_lastDecodedTimestamp = entry.ts
        /\ pc = "loop" => (packet = NULL /\ ~loopCond(gotFrame, packet, goOn))
        /\ pc = "idle" => ret = "true"

\* A late tick on an exhausted packet list has returned.
C8_Witness ==
    /\ call = "updateTexture"
    /\ Returned
    /\ entry.list = <<>>
    /\ entry.gap < 0

\* C9: a call updates the texture at most once and assigns
\* lastDecodedTimestamp at most once; the picture comes from the last
\* iteration the loop runs, and nothing is popped after it.
C9_OneFramePerCall ==
    /\ texUpdates <= 1
    /\ tsAssigns <= 1
    /\ texUpdates = 1 =>
          /\ Stepped
          /\ step.gotPicture
          /\ m_packetList = IF step.needsMoreDecoding THEN <<Reduced>> \o step.list ELSE step.list
          /\ pc = "loop" => ~loopCond(gotFrame, packet, goOn)

\* last = 0 and offset = 45: the tick decoded the 40 ms picture and returned
\* with the clock still ahead and packets still queued.
C9_Witness ==
    /\ call = "updateTexture"
    /\ Returned
    /\ entry.ts = 0
    /\ offset = 45
    /\ texUpdates = 1
    /\ m_lastDecodedTimestamp = 40
    /\ m_packetList # <<>>

\* C10: on the transition from Paused into Playing the component does
\* nothing: no pop, no decode, and the texture, lastDecodedTimestamp and the
\* packet list are unchanged.
C10_ResumeDoesNothing ==
    (call = "willPlay" /\ entry.status = "Paused") =>
        /\ disposals = <<>>
        /\ decodes = 0
        /\ m_texture = entry.tex
        /\ m_lastDecodedTimestamp = entry.ts
        /\ m_packetList = entry.list

\* C11 as claimed: when playback starts from Stopped on a non-empty packet
\* list, any packet of which may bear a picture, the Timer turns Playing with
\* a first frame in the texture, or with the list exhausted.
C11_FirstFrameBeforePlaying ==
    (call = "willPlay" /\ entry.status = "Stopped" /\ status = "Playing" /\ entry.list # <<>>) =>
        \/ texUpdates = 1
        \/ m_packetList = <<>>

\* C11 as amended: on the transition from Stopped into Playing willPlay runs
\* one frame-production attempt whatever the gap: onGetData is entered, the
\* head of a non-empty list is popped and decoded, and the Timer turns Playing
\* only once the attempt has returned; when no decode of the attempt failed,
\* playback starts with a picture in the texture or with the list exhausted.
C11_PlayFromStoppedPreloadsOnce ==
    (call = "willPlay" /\ entry.status = "Stopped") =>
        /\ pc = "loop" \/ Returned
        /\ pc = "loop" => status = "Stopped"
        /\ pc = "idle" => status = "Playing"
        /\ entry.list # <<>> =>
              /\ Len(disposals) >= 1
              /\ (pc = "loop" /\ decodes = 0) => packet = Head(entry.list)
              /\ pc = "idle" => decodes >= 1
        /\ (Returned /\ ret = "true" /\ entry.list # <<>>) =>
              \/ texUpdates = 1 /\ tsAssigns = 1 /\ m_texture # NoPicture
              \/ texUpdates = 0 /\ m_packetList = <<>>

\* Playback restarted from Stopped while the last decoded frame was ahead of
\* the clock, and the attempt put a picture in the texture.
C11_Witness ==
    /\ call = "willPlay"
    /\ entry.status = "Stopped"
    /\ entry.gap > 0
    /\ status = "Playing"
    /\ Returned
    /\ texUpdates = 1

\* C12: every transition into Stopped flushes the codec, so nothing is
\* buffered from the Stop until the next decode call, and the first decode
\* call after a Stop emits no picture decoded from data buffered before it.
C12_StopFlushesCodec ==
    /\ call = "didStop" => ~m_codecCtx
    /\ afterStop => ~m_codecCtx
    /\ (Stepped /\ step.afterStop) => step.source # "buffered"

\* Stop then Play: the first decode after the Stop emitted a picture from a
\* packet whose earlier part had been submitted to the codec before the Stop.
C12_Witness ==
    /\ call = "willPlay"
    /\ entry.status = "Stopped"
    /\ Stepped
    /\ step.afterStop
    /\ step.gotPicture
    /\ step.packet.data > 0

\* C13: lastDecodedTimestamp is assigned only by a decode step that succeeds
\* (consumed length > 0) with a picture: a step that fails or yields no
\* picture leaves it as it was before the step, and a gated-off tick, the
\* didPause and didStop callbacks, the passing of time and the entry of
\* willPlay / preload up to the first decode leave it as it was.
C13_TimestampOnlyOnPicture ==
    /\ tsAssigns = 0 => m_lastDecodedTimestamp = entry.ts
    /\ tsAssigns >= 1 => (Stepped /\ step.gotPicture /\ step.decodedLength > 0)
    /\ (Stepped /\ ~(step.gotPicture /\ step.decodedLength > 0)) =>
          m_lastDecodedTimestamp = step.ts
    /\ call \in {"didPause", "didStop", "none"} =>
          (tsAssigns = 0 /\ m_lastDecodedTimestamp = entry.ts)
    /\ (call = "updateTexture" /\ entry.gap >= 0) => m_lastDecodedTimestamp = entry.ts
    /\ (pc = "loop" /\ decodes = 0) => m_lastDecodedTimestamp = entry.ts

\* A call that decoded a packet without a picture and then hit a failed
\* decode flagged with a picture returned with the 40 ms timestamp untouched.
C13_Witness ==
    /\ Returned
    /\ decodes >= 2
    /\ step.decodedLength < 0
    /\ step.gotPicture
    /\ entry.ts = 40
    /\ m_lastDecodedTimestamp = 40

\* The packets the component or the packet list holds: the queued ones and,
\* inside the loop, the one in hand that the loop will decode next.
Held ==
    {m_packetList[i] : i \in 1 .. Len(m_packetList)} \cup
    (IF pc = "loop" /\ loopCond(gotFrame, packet, goOn) THEN {packet} ELSE {})

\* C15 as claimed: on every decode whose result is not negative (0 included)
\* a consumed length below the remaining size requeues the packet.
C15_RequeuedUnlessFullyConsumed ==
    (Stepped /\ step.decodedLength >= 0 /\ step.decodedLength < step.packet.size) =>
        step.needsMoreDecoding

\* C15 as amended: on every decode that consumed a positive length the packet
\* is freed only when the length equals its remaining size, and is otherwise
\* requeued with data advanced and size reduced by that length, so for every
\* packet held consumed-so-far plus remaining equals the length it was queued
\* with; a decode that reports 0 is treated as a failure: the packet is freed
\* with its remaining bytes and the call returns false.
C15_NoBytesDroppedOnPositive ==
    /\ (Stepped /\ step.decodedLength > 0) =>
          /\ step.needsMoreDecoding <=> step.decodedLength < step.packet.size
          /\ step.needsMoreDecoding =>
                /\ Reduced.size >= 1
                /\ IF step.gotPicture
                   THEN m_packetList # <<>> /\ Head(m_packetList) = Reduced
                   ELSE pc = "loop" /\ packet = Reduced
    /\ (Stepped /\ step.decodedLength = 0) =>
          /\ ~step.needsMoreDecoding
          /\ m_packetList = step.list
          /\ pc = "idle" => ret = "false"
    /\ \A p \in Held : p.size >= 1 /\ p.data >= 0 /\ p.data + p.size = p.length

\* A packet of length 3 whose first byte an earlier decode consumed is decoded
\* again, one more byte is consumed and its last byte is requeued.
C15_Witness ==
    /\ Stepped
    /\ step.packet.data = 1
    /\ step.decodedLength = 1
    /\ step.needsMoreDecoding
    /\ step.gotPicture
    /\ m_packetList # <<>>
    /\ Head(m_packetList).data = 2
    /\ Head(m_packetList).size = 1

\* C16: on every decode call in which the codec produces a picture, and so
\* every time the texture is updated, lastDecodedTimestamp is set in that step
\* to (best-effort timestamp - start time) scaled by the time base to whole
\* milliseconds, an unknown start time counting as 0.
C16_TimestampOfEveryPicture ==
    (Stepped /\ step.gotPicture) =>
        /\ tsAssigns = 1
        /\ m_lastDecodedTimestamp = Milliseconds(m_texture, m_stream)

\* C17: when a step of the constructor fails, construction does not complete
\* and every resource the earlier steps acquired has been released: none is
\* left held, and none was released twice.
C17_FailedConstructionReleasesAll ==
    pc = "failed" => \A r \in Resources : owned[r] # "held"

\* The bytes still to decode: those of the packet in hand and of the list.
Bytes(pkt, list) == pkt.size + Sum([i \in 1 .. Len(list) |-> list[i].size])

\* C18: every call of onGetData terminates on a finite source that is not
\* refilled: an iteration that is followed by another one consumed at least
\* one byte, it freed its packet or requeued it strictly shorter, so the bytes
\* left to decode strictly decrease from one iteration to the next and a call
\* makes at most as many decode calls as the source held bytes on entry.
C18_EveryIterationConsumes ==
    /\ (pc = "loop" /\ Stepped /\ loopCond(gotFrame, packet, goOn)) =>
          /\ step.decodedLength > 0
          /\ IF step.needsMoreDecoding
             THEN /\ packet = Reduced
                  /\ packet.size < step.packet.size
                  /\ m_packetList = step.list
             ELSE /\ disposals[Len(disposals) - 1] = <<"freed">>
                  /\ Len(m_packetList) < Len(step.list)
          /\ Bytes(packet, m_packetList) < Bytes(step.packet, step.list)
    /\ pc \in {"idle", "loop"} => decodes <= Bytes(NULL, entry.list)

\* A call that requeued and re-popped one packet twice, then freed it.
C18_Witness ==
    /\ Returned
    /\ Len(entry.list) = 1
    /\ decodes = 3
    /\ Count("requeued") = 2
    /\ Count("freed") = 1

\* C19: didStop changes only the codec's buffered state: lastDecodedTimestamp,
\* the texture, the native resources and the packet list (a partially consumed
\* packet at its head included) are what they were before the stop, and the
\* synchronization gap is computed from the pre-stop timestamp; the first
\* decode after the stop leaves the timestamp alone too unless it produces a
\* picture.
C19_StopKeepsTimestampAndPackets ==
    /\ call = "didStop" =>
          /\ m_lastDecodedTimestamp = entry.ts
          /\ m_texture = entry.tex
          /\ m_packetList = entry.list
          /\ \A r \in Resources : owned[r] = "held"
          /\ ~m_codecCtx
          /\ getSynchronizationGap = entry.ts - offset
          /\ pc = "idle" /\ packet = NULL
    /\ (Stepped /\ step.afterStop /\ ~step.gotPicture) =>
          m_lastDecodedTimestamp = step.ts

\* A stop with a picture shown, a timestamp of 40 ms and a partially consumed
\* packet at the head of the list.
C19_Witness ==
    /\ call = "didStop"
    /\ m_lastDecodedTimestamp = 40
    /\ m_texture # NoPicture
    /\ m_packetList # <<>>
    /\ Head(m_packetList).data > 0

\* The stream has caught up with the clock, or has nothing left to decode.
CaughtUp == m_lastDecodedTimestamp >= offset \/ m_packetList = <<>>

\* C20: with the clock held, a finite source that is not refilled and
\* updateTexture called again and again, eventually and from then on
\* lastDecodedTimestamp >= the clock or the packet list is empty, whatever
\* decode failures happen on the way; and a tick with lastDecodedTimestamp >=
\* the clock changes nothing.
C20_CatchUp ==
    /\ <>[]CaughtUp
    /\ [](call = "updateTexture" /\ ~isLate(entry.gap) =>
             /\ m_lastDecodedTimestamp = entry.ts
             /\ m_texture = entry.tex
             /\ m_packetList = entry.list
             /\ decodes = 0)

\* A tick that found the stream 40 ms behind a clock held at 80 ms and
\* decoded the picture of 80 ms.
C20_Witness ==
    /\ call = "updateTexture"
    /\ Returned
    /\ offset = 80
    /\ entry.ts = 40
    /\ m_lastDecodedTimestamp = 80
    /\ CaughtUp

====
